---- MODULE Spec2Model ----
\* Model of UWGeodynamics/_utils.py: class PassiveTracers (construction,
\* integrate, add_tracked_field, save) and rotateTensor2D, run SPMD on
\* NumParts MPI ranks.  Every rank makes the same sequence of calls; the
\* collective calls (integrate, save) are followed rank by rank, the purely
\* local call add_tracked_field is one step.
EXTENDS Integers, Sequences, FiniteSets, TLC

\* ------------------------------------------------------------------ bounds
NumParts == 2          \* comm.size: number of ranks
MaxCalls == 3          \* number of API calls the caller makes after construction

\* ------------------------------------------------------- program constants
MeshDim == 2           \* a 2-D run: mesh.dim

Parts == 0 .. (NumParts - 1)
Coordinator == 0                       \* "if rank == 0"
Rows == {0, 1}                         \* rows of the domain owned by one rank
Height == NumParts * Cardinality(Rows) \* extent of the domain along the last axis
Columns == {0, 1, 2}                   \* extent of the domain along the first axis

\* -------------------------------------------------------------- identities
\* pairs = np.array(zip(ranks, indices), dtype=[("a", int32), ("b", int32)])
\* pairs.view(np.int64) reads the 8 bytes of a pair as one 64-bit integer: the
\* identity is kept as its two 32-bit words, low word "a" and high word "b"
\* (the value is lo + hi * 2^32).
PackSum(r, i) == [lo |-> r + i, hi |-> 0]

Pack(r, i) == [lo |-> r, hi |-> i]

\* decoding: the int64 viewed back as the pair (a, b)
UnpackA(id) == id.lo
UnpackB(id) == id.hi

\* ------------------------------------------------------------------ seeding
Max(a, b) == IF a >= b THEN a ELSE b

\* points = zeros((sizes.max(), len(vertices))); points[:, dim] = vertices[dim]
\* (a scalar coordinate is broadcast to every row)
SeedPoints(v) ==
    LET n == Max(Len(v.x), Len(v.y))
        at(s, j) == IF Len(s) = 1 THEN s[1] ELSE s[j]
    IN [j \in 1 .. n |-> <<at(v.x, j), at(v.y, j)>>]

OwnerOf(pos) == pos[2] \div Cardinality(Rows)
InDomain(pos) == /\ pos[1] \in Columns
                 /\ pos[2] >= 0
                 /\ pos[2] < Height

\* add_particles_with_coordinates keeps on each rank the points of its own
\* part of the domain, in order
LocalPoints(pts, p) ==
    SelectSeq(pts, LAMBDA q : InDomain(q) /\ OwnerOf(q) = p)

\* the swarm right after __init__: the marker created on rank r in local slot i
\* is keyed <<r, i>>; global_index.data[:, 0] = pairs.view(np.int64)
SeedSwarm(pts) ==
    LET keys == {k \in Parts \X (0 .. Len(pts)) :
                    k[2] < Len(LocalPoints(pts, k[1]))}
    IN [k \in keys |->
          [owner |-> k[1],
           pos   |-> LocalPoints(pts, k[1])[k[2] + 1],
           gid   |-> Pack(k[1], k[2])]]

\* vertices handed to the constructor (x and y coordinate arrays)
SeedChoices ==
    { [x |-> <<0, 1, 2>>, y |-> <<1>>],
      [x |-> <<0, 1, 0>>, y |-> <<1, 1, 2>>] }

\* ----------------------------------------------------------- velocity field
\* velocityField.data as the solver left it: the owned node of every rank
VelFields == { [p \in 0 .. (NumParts - 1) |-> <<1 + (p % 2), 1>>] }
Neighbour(p) == (p + 1) % NumParts

\* velocityField.data[:, :-1] = 0.
ZeroNonLast(v) == <<0, v[2]>>
ZeroData(d) == [own |-> ZeroNonLast(d.own), shadow |-> ZeroNonLast(d.shadow)]

NoData == [own |-> <<0 - 1, 0 - 1>>, shadow |-> <<0 - 1, 0 - 1>>]

\* ------------------------------------------------------------------ samplers
Functions == {"fnA", "fnB"}            \* instances of fn.Function
NonFunctions == {"text"}               \* any other value
FieldNames == {"stress", "temp"}

\* value.evaluate(swarm) at one marker: a scalar per marker, which numpy
\* broadcasts over the components of the storage
Evaluate(value, pos) == IF value = "fnA" THEN pos[1] + 1 ELSE pos[2] + 2

\* angular_velocity.evaluate(swarm) at one marker, in quarter turns per unit time
AngularVelocity(pos) == 1

Zeros(count) == [c \in 1 .. count |-> 0]

\* swarm.add_variable(dataType, count); svar.data[...] = 0.
NewVariable(sw, dataType, count) ==
    [dataType |-> dataType, count |-> count,
     data |-> [k \in DOMAIN sw |-> Zeros(count)]]

\* setattr(self, name, svar)
SetAttr(at, name, svar) ==
    [n \in (DOMAIN at) \cup {name} |-> IF n = name THEN svar ELSE at[n]]

\* arguments of add_tracked_field: any sampler with any metadata, and a value
\* that is no fn.Function
Metas == { [units |-> "pascal", dataType |-> "double", count |-> 3],
           [units |-> "kelvin", dataType |-> "float", count |-> 1] }
AddArgs ==
    [value : Functions, name : FieldNames, meta : Metas,
     overwrite : BOOLEAN, timeIntegration : BOOLEAN]
    \cup
    [value : NonFunctions, name : FieldNames,
     meta : { [units |-> "kelvin", dataType |-> "float", count |-> 1] },
     overwrite : BOOLEAN, timeIntegration : {FALSE}]

Entry(a) ==
    [value |-> a.value, name |-> a.name, units |-> a.meta.units,
     timeIntegration |-> a.timeIntegration, dataType |-> a.meta.dataType]

\* "for field in self.tracked_field: if name == field[name] or value == field[value]"
Matches(tf, a) ==
    {i \in 1 .. Len(tf) : tf[i].name = a.name \/ tf[i].value = a.value}
FirstMatch(tf, a) ==
    IF Matches(tf, a) = {} THEN 0
    ELSE CHOOSE i \in Matches(tf, a) : \A j \in Matches(tf, a) : i <= j

\* a registration that allocates and binds the storage before it checks
add_tracked_field_late_raise(tf, at, sw, a) ==
    LET bound == SetAttr(at, a.name,
                   NewVariable(sw, a.meta.dataType, a.meta.count))
        i == FirstMatch(tf, a)
    IN IF a.value \notin Functions \/ (i > 0 /\ ~a.overwrite)
       THEN [tf |-> tf, at |-> bound, status |-> "ValueError"]
       ELSE IF i > 0
            THEN [tf |-> [tf EXCEPT ![i] = Entry(a)], at |-> bound,
                  status |-> "replaced"]
            ELSE [tf |-> Append(tf, Entry(a)), at |-> bound,
                  status |-> "appended"]

\* a registration that overwrites but keeps the old storage
add_tracked_field_keep_storage(tf, at, sw, a) ==
    IF a.value \notin Functions
    THEN [tf |-> tf, at |-> at, status |-> "ValueError"]
    ELSE LET i == FirstMatch(tf, a) IN
         IF i > 0
         THEN IF ~a.overwrite
              THEN [tf |-> tf, at |-> at, status |-> "ValueError"]
              ELSE [tf |-> [tf EXCEPT ![i] = Entry(a)],
                    at |-> IF a.name \in DOMAIN at THEN at
                           ELSE SetAttr(at, a.name,
                                  NewVariable(sw, a.meta.dataType, a.meta.count)),
                    status |-> "replaced"]
         ELSE [tf |-> Append(tf, Entry(a)),
               at |-> SetAttr(at, a.name,
                        NewVariable(sw, a.meta.dataType, a.meta.count)),
               status |-> "appended"]

\* add_tracked_field: the registry, the bound storage and the outcome
add_tracked_field(tf, at, sw, a) ==
    IF a.value \notin Functions
    THEN [tf |-> tf, at |-> at, status |-> "ValueError"]
    ELSE LET i == FirstMatch(tf, a) IN
         IF i > 0
         THEN IF ~a.overwrite
              THEN [tf |-> tf, at |-> at, status |-> "ValueError"]
              ELSE [tf |-> [tf EXCEPT ![i] = Entry(a)],
                    at |-> SetAttr(at, a.name,
                             NewVariable(sw, a.meta.dataType, a.meta.count)),
                    status |-> "replaced"]
         ELSE [tf |-> Append(tf, Entry(a)),
               at |-> SetAttr(at, a.name,
                        NewVariable(sw, a.meta.dataType, a.meta.count)),
               status |-> "appended"]

\* --------------------------------------------------------- tensor rotation
\* cos and sin of an angle given in quarter turns
Cos(k) == LET r == k % 4 IN IF r = 0 THEN 1 ELSE IF r = 2 THEN 0 - 1 ELSE 0
Sin(k) == LET r == k % 4 IN IF r = 1 THEN 1 ELSE IF r = 3 THEN 0 - 1 ELSE 0

\* rotateTensor2D(t, theta) for one row t = [xx, yy, xy]: returns the rotated
\* copy t_ and leaves t as it is
rotateTensor2D(t, theta) ==
    <<  (t[1] * Cos(theta) * Cos(theta)) + (t[2] * Sin(theta) * Sin(theta))
          + (t[3] * Sin(2 * theta)),
        ((t[1] * Sin(theta) * Sin(theta)) + (t[2] * Cos(theta) * Cos(theta)))
          - (t[3] * Sin(2 * theta)),
        ((t[2] - t[1]) * Cos(theta) * Sin(theta)) + (t[3] * Cos(2 * theta)) >>

\* ------------------------------------------------- time-integrated fields
\* __init__ binds name, velocityField, angular_velocity, particleEscape, zOnly,
\* swarm, advector, global_index and tracked_field on self: no attribute "mesh"
HasMeshAttr == FALSE

\* lines 113-116 on the rows of rank p: the copy rotateTensor2D returns is
\* dropped, the increment is added to the first three components as they are
TensorUpdate(svar, sw, p, value, dt) ==
    [svar EXCEPT !.data =
       [k \in DOMAIN sw |->
          IF sw[k].owner # p THEN svar.data[k]
          ELSE LET dtheta == dt * AngularVelocity(sw[k].pos)
                   t_ == rotateTensor2D(svar.data[k], dtheta)
               IN [c \in 1 .. svar.count |->
                     IF c <= 3 THEN svar.data[k][c] + Evaluate(value, sw[k].pos)
                     ELSE svar.data[k][c]]]]

\* line 118 on the rows of rank p: obj.data[...] += value.evaluate(swarm) * dt
ScalarUpdate(svar, sw, p, value, dt) ==
    [svar EXCEPT !.data =
       [k \in DOMAIN sw |->
          IF sw[k].owner # p THEN svar.data[k]
          ELSE [c \in 1 .. svar.count |->
                  svar.data[k][c] + (Evaluate(value, sw[k].pos) * dt)]]]

\* the loop of lines 109-118 on rank p, from entry i on
RECURSIVE IntegrateFields(_, _, _, _, _, _)
IntegrateFields(i, tf, at, sw, p, dt) ==
    IF i > Len(tf) THEN [at |-> at, err |-> "none"]
    ELSE IF ~tf[i].timeIntegration
         THEN IntegrateFields(i + 1, tf, at, sw, p, dt)
    ELSE IF ~HasMeshAttr
         THEN [at |-> at, err |-> "AttributeError"]
    ELSE IF MeshDim = 2 /\ at[tf[i].name].count > 2
         THEN IntegrateFields(i + 1, tf,
                [at EXCEPT ![tf[i].name] =
                   TensorUpdate(at[tf[i].name], sw, p, tf[i].value, dt)],
                sw, p, dt)
    ELSE IntegrateFields(i + 1, tf,
           [at EXCEPT ![tf[i].name] =
              ScalarUpdate(at[tf[i].name], sw, p, tf[i].value, dt)],
           sw, p, dt)

\* ---------------------------------------------------------------- advection
\* advector.integrate(dt): every marker moves by dt times the velocity its
\* rank holds; a marker that leaves the domain is dropped when particleEscape
\* is set and keeps its rank otherwise; the others go to the rank owning them
AdvectSwarm(sw, vf, escape, dt) ==
    LET moved(k) == << sw[k].pos[1] + (dt * vf[sw[k].owner].own[1]),
                       sw[k].pos[2] + (dt * vf[sw[k].owner].own[2]) >>
        kept == {k \in DOMAIN sw : InDomain(moved(k)) \/ ~escape}
    IN [k \in kept |->
          [owner |-> IF InDomain(moved(k)) THEN OwnerOf(moved(k)) ELSE sw[k].owner,
           pos   |-> moved(k),
           gid   |-> sw[k].gid]]

\* the swarm variables follow their markers
RestrictData(at, keys) ==
    [n \in DOMAIN at |-> [at[n] EXCEPT !.data = [k \in keys |-> at[n].data[k]]]]

\* velocityField.syncronise(): every shadow value becomes the owner's value
Syncronise(vf) ==
    [p \in Parts |-> [vf[p] EXCEPT !.shadow = vf[Neighbour(p)].own]]

\* -------------------------------------------------------------------- state
VARIABLES
    zOnly,             \* self.zOnly
    particleEscape,    \* self.particleEscape
    velocityField,     \* velocityField.data on every rank: owned and shadow node
    saved_velocities,  \* the local saved_velocities of integrate, per rank
    swarm,             \* the markers: creation key -> owner, position, identity
    tracked_field,     \* self.tracked_field
    attrs,             \* the swarm variables bound on self by setattr, by name
    call,              \* the call the ranks are in: [op, dt]
    pc,                \* position of every rank in that call
    err,               \* the exception a rank has raised in that call
    ncalls,            \* calls made so far
    lastAdd,           \* arguments and outcome of the last add_tracked_field
    velPre,            \* velocityField.data when the current call began
    attrsPre,          \* attrs when the current call began
    swarmPre,          \* swarm right after the advection of the current call
    fidx,              \* save: index of the field a rank handles next
    files,             \* save: datasets each rank has written for this checkpoint
    xdmf,              \* save: the coordinator's descriptor string, by entries
    xdmfWrites,        \* save: times the descriptor file was written in this call
    xdmfWriters        \* save: the ranks that wrote the descriptor file in this call

vars == << zOnly, particleEscape, velocityField, saved_velocities, swarm,
           tracked_field, attrs, call, pc, err, ncalls, lastAdd, velPre,
           attrsPre, swarmPre, fidx, files, xdmf, xdmfWrites, xdmfWriters >>

configVars == << zOnly, particleEscape >>
saveVars == << fidx, files, xdmf, xdmfWrites, xdmfWriters >>

Idle == [op |-> "idle", dt |-> 0]
NoAdd == [args |-> [value |-> "text", name |-> "temp",
                    meta |-> [units |-> "kelvin", dataType |-> "float", count |-> 1],
                    overwrite |-> FALSE, timeIntegration |-> FALSE],
          status |-> "none"]
NoAttrs == [n \in {} |-> 0]
DtChoices == {1, 2}

\* PassiveTracers.__init__ on every rank, with a velocity field whose shadow
\* values are in step with their owners
Init ==
    /\ zOnly \in BOOLEAN
    /\ particleEscape \in BOOLEAN
    /\ \E own \in VelFields :
          velocityField = [p \in Parts |->
                             [own |-> own[p], shadow |-> own[Neighbour(p)]]]
    /\ saved_velocities = [p \in Parts |-> NoData]
    /\ \E v \in SeedChoices : swarm = SeedSwarm(SeedPoints(v))
    /\ tracked_field = << >>
    /\ attrs = NoAttrs
    /\ call = Idle
    /\ pc = [p \in Parts |-> "idle"]
    /\ err = [p \in Parts |-> "none"]
    /\ ncalls = 0
    /\ lastAdd = NoAdd
    /\ velPre = velocityField
    /\ attrsPre = attrs
    /\ swarmPre = swarm
    /\ fidx = [p \in Parts |-> 0]
    /\ files = [p \in Parts |-> << >>]
    /\ xdmf = << >>
    /\ xdmfWrites = 0
    /\ xdmfWriters = {}

\* ------------------------------------------------------- add_tracked_field
AddTrackedField(a) ==
    /\ call.op = "idle"
    /\ ncalls < MaxCalls
    /\ LET r == add_tracked_field(tracked_field, attrs, swarm, a) IN
          /\ tracked_field' = r.tf
          /\ attrs' = r.at
          /\ lastAdd' = [args |-> a, status |-> r.status]
    /\ ncalls' = ncalls + 1
    /\ attrsPre' = attrs
    /\ UNCHANGED << configVars, velocityField, saved_velocities, swarm, call, pc,
                    err, velPre, swarmPre, saveVars >>

\* ---------------------------------------------------------------- integrate
\* the caller enters integrate(dt) on every rank
CallIntegrate(dt) ==
    /\ call.op = "idle"
    /\ ncalls < MaxCalls
    /\ call' = [op |-> "integrate", dt |-> dt]
    /\ pc' = [p \in Parts |-> IF zOnly THEN "i_zero" ELSE "i_advect"]
    /\ err' = [p \in Parts |-> "none"]
    /\ ncalls' = ncalls + 1
    /\ velPre' = velocityField
    /\ attrsPre' = attrs
    /\ swarmPre' = swarm
    /\ lastAdd' = NoAdd
    /\ UNCHANGED << configVars, velocityField, saved_velocities, swarm,
                    tracked_field, attrs, saveVars >>

\* lines 99-100: saved_velocities = np.copy(data); data[:, :-1] = 0.
ZeroVelocity(p) ==
    /\ call.op = "integrate"
    /\ pc[p] = "i_zero"
    /\ saved_velocities' = [saved_velocities EXCEPT ![p] = velocityField[p]]
    /\ velocityField' = [velocityField EXCEPT ![p] = ZeroData(velocityField[p])]
    /\ pc' = [pc EXCEPT ![p] = "i_sync1"]
    /\ UNCHANGED << configVars, swarm, tracked_field, attrs, call, err, ncalls,
                    lastAdd, velPre, attrsPre, swarmPre, saveVars >>

\* lines 101 and 104: velocityField.syncronise(), entered by every rank
SyncStep(from, to) ==
    /\ call.op = "integrate"
    /\ \A p \in Parts : pc[p] = from
    /\ velocityField' = Syncronise(velocityField)
    /\ pc' = [p \in Parts |-> to]
    /\ UNCHANGED << configVars, saved_velocities, swarm, tracked_field, attrs,
                    call, err, ncalls, lastAdd, velPre, attrsPre, swarmPre,
                    saveVars >>

\* lines 102 and 106: advector.integrate(dt), entered by every rank
Advect ==
    /\ call.op = "integrate"
    /\ \A p \in Parts : pc[p] = "i_advect"
    /\ swarm' = AdvectSwarm(swarm, velocityField, particleEscape, call.dt)
    /\ attrs' = RestrictData(attrs, DOMAIN swarm')
    /\ swarmPre' = swarm'
    /\ attrsPre' = RestrictData(attrsPre, DOMAIN swarm')
    /\ pc' = [p \in Parts |-> IF zOnly THEN "i_restore" ELSE "i_fields"]
    /\ UNCHANGED << configVars, velocityField, saved_velocities, tracked_field,
                    call, err, ncalls, lastAdd, velPre, saveVars >>

\* lines 102 and 106: advector.integrate(dt) raises on rank p
AdvectFail(p) ==
    /\ call.op = "integrate"
    /\ pc[p] = "i_advect"
    /\ pc' = [pc EXCEPT ![p] = "raised"]
    /\ err' = [err EXCEPT ![p] = "AdvectError"]
    /\ UNCHANGED << configVars, velocityField, saved_velocities, swarm,
                    tracked_field, attrs, call, ncalls, lastAdd, velPre,
                    attrsPre, swarmPre, saveVars >>

\* a restoration that leaves the field as it is
RestoreNothing(vf, saved) == vf

\* line 103: the data after velocityField.data[...] = saved_velocities

RestoreData(vf, saved) == saved

\* line 103 on rank p
RestoreVelocity(p) ==
    /\ call.op = "integrate"
    /\ pc[p] = "i_restore"
    /\ velocityField' = [velocityField EXCEPT
                           ![p] = RestoreData(velocityField[p], saved_velocities[p])]
    /\ pc' = [pc EXCEPT ![p] = "i_sync2"]
    /\ UNCHANGED << configVars, saved_velocities, swarm, tracked_field, attrs,
                    call, err, ncalls, lastAdd, velPre, attrsPre, swarmPre,
                    saveVars >>

\* lines 109-118 on rank p, then the return (or the exception)
TrackFields(p) ==
    /\ call.op = "integrate"
    /\ pc[p] = "i_fields"
    /\ LET r == IntegrateFields(1, tracked_field, attrs, swarm, p, call.dt) IN
          /\ attrs' = r.at
          /\ err' = [err EXCEPT ![p] = r.err]
          /\ pc' = [pc EXCEPT ![p] = IF r.err = "none" THEN "returned" ELSE "raised"]
    /\ UNCHANGED << configVars, velocityField, saved_velocities, swarm,
                    tracked_field, call, ncalls, lastAdd, velPre, attrsPre,
                    swarmPre, saveVars >>

\* every rank has left the call (returned, or raised to a caller that goes on)
EndCall ==
    /\ call.op # "idle"
    /\ \A p \in Parts : pc[p] \in {"returned", "raised"}
    /\ call' = Idle
    /\ pc' = [p \in Parts |-> "idle"]
    /\ err' = [p \in Parts |-> "none"]
    /\ saved_velocities' = [p \in Parts |-> NoData]
    /\ velPre' = velocityField
    /\ attrsPre' = attrs
    /\ swarmPre' = swarm
    /\ fidx' = [p \in Parts |-> 0]
    /\ UNCHANGED << configVars, velocityField, swarm, tracked_field, attrs,
                    ncalls, lastAdd, files, xdmf, xdmfWrites, xdmfWriters >>

\* --------------------------------------------------------------------- save
Piece(kind, name, idx) == [kind |-> kind, name |-> name, idx |-> idx]

\* line 189 on the rows of rank p: obj.data[...] = value.evaluate(swarm)
Refresh(svar, sw, p, value) ==
    [svar EXCEPT !.data =
       [k \in DOMAIN sw |->
          IF sw[k].owner # p THEN svar.data[k]
          ELSE [c \in 1 .. svar.count |-> Evaluate(value, sw[k].pos)]]]

\* the caller enters save(outputDir, checkpointID, time) on every rank
CallSave ==
    /\ call.op = "idle"
    /\ ncalls < MaxCalls
    /\ call' = [op |-> "save", dt |-> 0]
    /\ pc' = [p \in Parts |-> "s_swarm"]
    /\ err' = [p \in Parts |-> "none"]
    /\ ncalls' = ncalls + 1
    /\ lastAdd' = NoAdd
    /\ velPre' = velocityField
    /\ attrsPre' = attrs
    /\ swarmPre' = swarm
    /\ fidx' = [p \in Parts |-> 1]
    /\ files' = [p \in Parts |-> << >>]
    /\ xdmf' = << >>
    /\ xdmfWrites' = 0
    /\ xdmfWriters' = {}
    /\ UNCHANGED << configVars, velocityField, saved_velocities, swarm,
                    tracked_field, attrs >>

\* lines 159-167: rank p writes its slice of the positions; the coordinator
\* starts the descriptor string
SaveSwarm(p) ==
    /\ call.op = "save"
    /\ pc[p] = "s_swarm"
    /\ files' = [files EXCEPT ![p] = Append(@, "swarm")]
    /\ xdmf' = IF p = Coordinator
               THEN << Piece("header", "", 0), Piece("spacetime", "swarm", 0) >>
               ELSE xdmf
    /\ pc' = [pc EXCEPT ![p] = "s_bar1"]
    /\ UNCHANGED << configVars, velocityField, saved_velocities, swarm,
                    tracked_field, attrs, call, err, ncalls, lastAdd, velPre,
                    attrsPre, swarmPre, fidx, xdmfWrites, xdmfWriters >>

\* a barrier that lets every rank through as it arrives
BarrierNoWait(from, to) ==
    /\ call.op = "save"
    /\ \E p \in Parts :
          /\ pc[p] = from
          /\ pc' = [pc EXCEPT ![p] = to]
    /\ UNCHANGED << configVars, velocityField, saved_velocities, swarm,
                    tracked_field, attrs, call, err, ncalls, lastAdd, velPre,
                    attrsPre, swarmPre, saveVars >>

\* comm.Barrier(): no rank leaves before every rank has arrived
Barrier(from, to) ==
    /\ call.op = "save"
    /\ \A p \in Parts : pc[p] = from
    /\ pc' = [p \in Parts |-> to]
    /\ UNCHANGED << configVars, velocityField, saved_velocities, swarm,
                    tracked_field, attrs, call, err, ncalls, lastAdd, velPre,
                    attrsPre, swarmPre, saveVars >>

\* lines 172-177: rank p writes its slice of global_index; the coordinator
\* appends its schema entry
SaveIndex(p) ==
    /\ call.op = "save"
    /\ pc[p] = "s_index"
    /\ files' = [files EXCEPT ![p] = Append(@, "global_index")]
    /\ xdmf' = IF p = Coordinator
               THEN Append(xdmf, Piece("var", "global_index", 0))
               ELSE xdmf
    /\ pc' = [pc EXCEPT ![p] = "s_bar2"]
    /\ UNCHANGED << configVars, velocityField, saved_velocities, swarm,
                    tracked_field, attrs, call, err, ncalls, lastAdd, velPre,
                    attrsPre, swarmPre, fidx, xdmfWrites, xdmfWriters >>

\* line 181: the loop over self.tracked_field begins (or is empty)
LoopEntry == IF tracked_field = << >> THEN "s_bar3" ELSE "s_field"

\* where a rank goes once it has handled field i: the next field, or, the loop
\* over, the comm.Barrier() of line 196
AfterField(i) == IF i < Len(tracked_field) THEN "s_field" ELSE "s_bar3"

\* lines 183-194 for one field on rank p: refresh an instantaneous field, write
\* the local slice, and on the coordinator append the schema entry
SaveField(p) ==
    /\ call.op = "save"
    /\ pc[p] = "s_field"
    /\ LET i == fidx[p]
           field == tracked_field[i]
       IN /\ attrs' = IF field.timeIntegration THEN attrs
                      ELSE [attrs EXCEPT ![field.name] =
                              Refresh(attrs[field.name], swarm, p, field.value)]
          /\ files' = [files EXCEPT ![p] = Append(@, field.name)]
          /\ xdmf' = IF p = Coordinator
                     THEN Append(xdmf, Piece("field", field.name, i))
                     ELSE xdmf
          /\ fidx' = [fidx EXCEPT ![p] = i + 1]
          /\ pc' = [pc EXCEPT ![p] = AfterField(i)]
    /\ UNCHANGED << configVars, velocityField, saved_velocities, swarm,
                    tracked_field, call, err, ncalls, lastAdd, velPre,
                    attrsPre, swarmPre, xdmfWrites, xdmfWriters >>

\* after the barrier of line 196: only the coordinator enters "if rank == 0"
AfterFields(p) == IF p = Coordinator THEN "s_final" ELSE "s_bar4"

\* a barrier that lets every rank through as it arrives
LeaveFieldLoopNoWait ==
    /\ call.op = "save"
    /\ \E p \in Parts :
          /\ pc[p] = "s_bar3"
          /\ pc' = [pc EXCEPT ![p] = AfterFields(p)]
    /\ UNCHANGED << configVars, velocityField, saved_velocities, swarm,
                    tracked_field, attrs, call, err, ncalls, lastAdd, velPre,
                    attrsPre, swarmPre, saveVars >>

\* line 196: comm.Barrier() after the loop over the fields
LeaveFieldLoop ==
    /\ call.op = "save"
    /\ \A p \in Parts : pc[p] = "s_bar3"
    /\ pc' = [p \in Parts |-> AfterFields(p)]
    /\ UNCHANGED << configVars, velocityField, saved_velocities, swarm,
                    tracked_field, attrs, call, err, ncalls, lastAdd, velPre,
                    attrsPre, swarmPre, saveVars >>

\* lines 200-219 on the rank inside "if rank == 0": 'data' is found in the
\* positions file, the coordinates block and the footer are appended, the
\* descriptor is written and closed
Finalize ==
    /\ call.op = "save"
    /\ \E p \in Parts :
          /\ pc[p] = "s_final"
          /\ xdmfWriters' = xdmfWriters \cup {p}
          /\ pc' = [pc EXCEPT ![p] = "s_bar4"]
    /\ xdmf' = xdmf \o << Piece("coordinates", "swarm", Cardinality(DOMAIN swarm)),
                          Piece("footer", "", MeshDim) >>
    /\ xdmfWrites' = xdmfWrites + 1
    /\ UNCHANGED << configVars, velocityField, saved_velocities, swarm,
                    tracked_field, attrs, call, err, ncalls, lastAdd, velPre,
                    attrsPre, swarmPre, fidx, files >>

\* lines 201-204 on the coordinator: h5f.get('data') is None (or the file
\* cannot be read) and the RuntimeError leaves save()
FinalizeFail ==
    /\ call.op = "save"
    /\ pc[Coordinator] = "s_final"
    /\ pc' = [pc EXCEPT ![Coordinator] = "raised"]
    /\ err' = [err EXCEPT ![Coordinator] = "RuntimeError"]
    /\ UNCHANGED << configVars, velocityField, saved_velocities, swarm,
                    tracked_field, attrs, call, ncalls, lastAdd, velPre,
                    attrsPre, swarmPre, saveVars >>

Next ==
    \/ \E a \in AddArgs : AddTrackedField(a)
    \/ \E dt \in DtChoices : CallIntegrate(dt)
    \/ \E p \in Parts : ZeroVelocity(p)
    \/ SyncStep("i_sync1", "i_advect")
    \/ Advect
    \/ \E p \in Parts : AdvectFail(p)
    \/ \E p \in Parts : RestoreVelocity(p)
    \/ SyncStep("i_sync2", "i_fields")
    \/ \E p \in Parts : TrackFields(p)
    \/ CallSave
    \/ \E p \in Parts : SaveSwarm(p)
    \/ Barrier("s_bar1", "s_index")
    \/ \E p \in Parts : SaveIndex(p)
    \/ Barrier("s_bar2", LoopEntry)
    \/ \E p \in Parts : SaveField(p)
    \/ LeaveFieldLoop
    \/ Finalize
    \/ FinalizeFail
    \/ Barrier("s_bar4", "returned")
    \/ EndCall

Spec == Init /\ [][Next]_vars

\* ------------------------------------------------------------------- claims
\* rank p has left integrate with its advection done
LeftIntegrate(p) ==
    /\ call.op = "integrate"
    /\ pc[p] \in {"returned", "raised"}
    /\ err[p] # "AdvectError"

\* the step is one add_tracked_field call
AddStep == call.op = "idle" /\ call'.op = "idle" /\ ncalls' = ncalls + 1

\* C1: in zOnly mode, when the advection inside integrate fails on a rank, the
\* velocity field of that rank is back at its pre-call value when the error
\* reaches the caller.
C1_VelocityRestoredOnAdvectionError ==
    \A p \in Parts :
        (zOnly /\ call.op = "integrate" /\ err[p] = "AdvectError")
            => velocityField[p] = velPre[p]

\* C2: after any sequence of add_tracked_field calls no two entries of the
\* registry have the same name.
C2_FieldNamesUnique ==
    \A i, j \in 1 .. Len(tracked_field) :
        i # j => tracked_field[i].name # tracked_field[j].name

\* C3: in a 2-D run, integrate(dt) leaves a time-integrated field stored with 3
\* components equal to the previously accumulated tensor rotated by
\* dt * angular velocity, plus the freshly sampled increment.
C3_TensorRotatedThenIncremented ==
    \A p \in Parts : \A i \in 1 .. Len(tracked_field) :
        LET f == tracked_field[i] IN
        (/\ LeftIntegrate(p)
         /\ MeshDim = 2
         /\ f.timeIntegration
         /\ attrsPre[f.name].count > 2)
        => /\ pc[p] = "returned"
           /\ \A k \in DOMAIN swarm :
                 swarm[k].owner = p =>
                    \A c \in 1 .. 3 :
                       attrs[f.name].data[k][c]
                         = rotateTensor2D(attrsPre[f.name].data[k],
                               call.dt * AngularVelocity(swarm[k].pos))[c]
                           + Evaluate(f.value, swarm[k].pos)

\* C4: when the coordinator fails while it finalizes the descriptor in save(),
\* every rank leaves save() with a failure: none waits at a barrier, none
\* returns.
C4_CoordinatorFailureAbortsEveryRank ==
    (call.op = "save" /\ err[Coordinator] = "RuntimeError")
        => \A p \in Parts : pc[p] = "raised"

\* C5: for a time-integrated field that is no 2-D tensor, every integrate(dt)
\* completes and leaves the storage at its value before the call plus
\* sampler(current positions) * dt.
C5_IntegratedFieldAccumulates ==
    \A p \in Parts : \A i \in 1 .. Len(tracked_field) :
        LET f == tracked_field[i] IN
        (/\ LeftIntegrate(p)
         /\ f.timeIntegration
         /\ ~(MeshDim = 2 /\ attrsPre[f.name].count > 2))
        => /\ pc[p] = "returned"
           /\ \A k \in DOMAIN swarm :
                 swarm[k].owner = p =>
                    \A c \in 1 .. attrsPre[f.name].count :
                       attrs[f.name].data[k][c]
                         = attrsPre[f.name].data[k][c]
                           + (Evaluate(f.value, swarm[k].pos) * call.dt)

\* C6: during save(), when the coordinator has appended the schema entry of a
\* field, every rank has written its dataset of that field.
C6_FieldWritesPrecedeSchemaAppend ==
    \A j \in 1 .. Len(xdmf) :
        xdmf[j].kind = "field"
            => \A p \in Parts : Len(files[p]) >= 2 + xdmf[j].idx

AddFails(a, tf) ==
    \/ a.value \notin Functions
    \/ (Matches(tf, a) # {} /\ ~a.overwrite)

\* C8: an add_tracked_field call that fails raises and leaves the registry and
\* the storage of every field as they were.
C8_FailedAddChangesNothing ==
    [][ (AddStep /\ AddFails(lastAdd'.args, tracked_field))
          => /\ lastAdd'.status = "ValueError"
             /\ tracked_field' = tracked_field
             /\ attrs' = attrs ]_vars

\* a duplicate registration without overwrite was refused while the field it
\* names held values
C8_Witness ==
    /\ lastAdd.status = "ValueError"
    /\ lastAdd.args.value \in Functions
    /\ lastAdd.args.name \in DOMAIN attrs
    /\ \E k \in DOMAIN swarm :
          attrs[lastAdd.args.name].data[k]
             # Zeros(attrs[lastAdd.args.name].count)

\* C9: in zOnly mode, on a rank that has returned normally from integrate the
\* velocity field equals its value before the call, owned and shadow values.
C9_VelocityRestoredOnReturn ==
    \A p \in Parts :
        (zOnly /\ call.op = "integrate" /\ pc[p] = "returned")
            => velocityField[p] = velPre[p]

\* every rank has returned from a zOnly integrate over a field whose first
\* component was not zero
C9_Witness ==
    /\ zOnly
    /\ call.op = "integrate"
    /\ \A p \in Parts : /\ pc[p] = "returned"
                        /\ velocityField[p].own[1] # 0
                        /\ velocityField[p].shadow[1] # 0

\* the call replaces an entry: a sampler, overwrite set, and a match
AddOverwrites(a, tf) ==
    /\ a.value \in Functions
    /\ a.overwrite
    /\ Matches(tf, a) # {}

AllDatasets ==
    << "swarm", "global_index" >>
        \o [i \in 1 .. Len(tracked_field) |-> tracked_field[i].name]

\* C11: in save(), when the coordinator has written the descriptor file, every
\* rank has completed all of its dataset writes of this checkpoint (positions,
\* identities and every registered field).
C11_DescriptorAfterAllDatasetWrites ==
    (call.op = "save" /\ xdmfWrites >= 1)
        => \A p \in Parts : files[p] = AllDatasets

\* the descriptor of a checkpoint with two registered fields has been written
\* while the ranks are still in save()
C11_Witness ==
    /\ call.op = "save"
    /\ xdmfWrites = 1
    /\ Len(tracked_field) >= 2
    /\ \A p \in Parts : pc[p] = "s_bar4"

\* C12: no rank returns from save() before the coordinator has written the
\* descriptor file, and the descriptor is written once in a save() call, by the
\* coordinator only.
C12_ReturnAfterSingleCoordinatorWrite ==
    /\ xdmfWrites <= 1
    /\ xdmfWriters \subseteq {Coordinator}
    /\ \A p \in Parts :
          (call.op = "save" /\ pc[p] = "returned")
              => (xdmfWrites = 1 /\ xdmfWriters = {Coordinator})

\* every rank has returned from a save() of a checkpoint with a registered
\* field, the descriptor written
C12_Witness ==
    /\ call.op = "save"
    /\ tracked_field # << >>
    /\ \A p \in Parts : pc[p] = "returned"
    /\ xdmfWrites = 1
    /\ Len(xdmf) = 5 + Len(tracked_field)

====
